---- MODULE Spec2Model ----
(***************************************************************************)
(* A model of dpool, a sharded client-side connection pool:                *)
(*   DPool<T>      (dpool.h)       the pool: shard vector, round-robin     *)
(*                                 cursor index_, numAvailable_, the health *)
(*                                 check thread and shutdown;               *)
(*   PoolShard<T>  (pool-shard.h)  one shard per server: idle list, active  *)
(*                                 count, fails, available, closed, stats.  *)
(* Every critical section of a shard (the code between a lock and the next  *)
(* unlock of mtx_) is one action; open() runs with the mutex released and   *)
(* is a step of its own.                                                    *)
(***************************************************************************)
EXTENDS Integers, Sequences, FiniteSets, TLC

(* ------------------------------ bounds --------------------------------- *)
\* Largest number of servers a pool is built with.
MaxShards == 3
\* Number of caller threads.
NumThreads == 2
\* Largest configured maxIdle, maxActive and maxFails.
MaxIdleCfg == 1
MaxActiveCfg == 1
MaxFailsCfg == 1
\* Number of initial cursor values examined, counted on from 2^32 - 2: the
\* last two before index_ wraps, then 0, 1, ...
CursorWindow == 3
\* Largest value the fails_ counter of a shard is driven to.
FailsCap == 2
\* SpecCycle: largest maxIdle, DPool::get calls, put calls and connections
\* opened.
CycleIdle == 2
CycleCalls == 3
CyclePuts == 4
CycleConns == 2
\* SpecStats: DPool::get calls, DPool::put calls, connections opened and
\* getShardStats calls.
StatCalls == 2
StatPuts == 1
StatConns == 1
StatReads == 1
\* Spec: DPool::get calls, DPool::put calls and connections opened.
PoolCalls == 1
PoolPuts == 1
PoolConns == 1
\* SpecShard: the same for the shard under test.
ShardCalls == 2
ShardPuts == 2
ShardConns == 2
\* SpecWait: the same for a shard whose callers wait.
WaitCalls == 2
WaitPuts == 1
WaitConns == 1
\* SpecSeq: DPool::get calls of the one sequential caller.
SeqCalls == 6
\* SpecCover: largest number of servers, and DPool::get calls of the one
\* caller.
CoverShards == 5
CoverCalls == 1

(* ------------------------- program constants --------------------------- *)
\* dpool.h:52  for (unsigned tries=0; tries < 5; ++tries)
MAX_TRIES == 5
\* std::atomic<unsigned> index_ is 32 bits wide; it is kept as two 16-bit
\* limbs <<hi, lo>> so that its wrap at 2^32 is exact.
LIMB == 65536

Threads == 1..NumThreads

VARIABLES
    N,              \* servers_.size()
    kMaxIdle,       \* PoolShard::kMaxIdle_
    kMaxActive,     \* PoolShard::kMaxActive_
    kMaxFails,      \* PoolShard::kMaxFails_
    kWait,          \* PoolShard::kWait_
    index,          \* DPool::index_, <<hi, lo>>
    numAvailable,   \* DPool::numAvailable_
    poolClosed,     \* DPool::closed_
    available,      \* PoolShard::available_, per shard
    fails,          \* PoolShard::fails_
    active,         \* PoolShard::active_
    closed,         \* PoolShard::closed_
    draining,       \* a close() of the shard is inside empty()
    idle,           \* PoolShard::idle_, front first
    stats,          \* PoolShard::stats_
    conns,          \* every connection opened so far: [shard, borrowed]
    pc,             \* per caller thread: where it is
    local,          \* DPool::get localIndex
    tries,          \* DPool::get tries
    refs,           \* the shared_ptrs a caller keeps
    result,         \* what the caller's last DPool::get gave
    late,           \* the caller's current get began after shutdown() returned
    signaled,       \* a notify_one chose this waiter
    pcP,            \* health check thread: where it is
    it,             \* health check thread: shard iterator
    lastLog,        \* the last line DPool::markAvailable wrote to std::cerr
    lastProbe,      \* the last checkServer: <<shard, open() attempts that failed>>
    pcSh,           \* shutdown(): where it is
    calls           \* calls made so far (get, put, reads) and, per shard,
                    \* the total of what getShardStats has given out

cfgVars == <<N, kMaxIdle, kMaxActive, kMaxFails, kWait>>
poolVars == <<index, numAvailable, poolClosed>>
shardVars == <<available, fails, active, closed, draining, idle, stats, conns>>
threadVars == <<pc, local, tries, refs, result, late, signaled>>
proberVars == <<pcP, it, lastLog, lastProbe>>
vars == <<cfgVars, poolVars, shardVars, threadVars, proberVars, pcSh, calls>>

Shards == 0..(N - 1)
ConnIds == 1..Len(conns)

\* result[t]: 0 nothing yet, a connection id, or Exhausted (DPoolException).
Exhausted == -1

(* --------------------- unsigned 32-bit arithmetic ---------------------- *)
\* x + k for an unsigned x (k < LIMB), wrapping at 2^32.
U32Add(x, k) ==
    LET lo == x[2] + k
    IN  <<(x[1] + (lo \div LIMB)) % LIMB, lo % LIMB>>

\* x % n for an unsigned x = hi * 2^16 + lo.
U32Mod(x, n) == ((x[1] % n) * (LIMB % n) + (x[2] % n)) % n

\* index_.fetch_add(1)
FetchAdd(x) == U32Add(x, 1)

\* int idx = ((localIndex + tries) % servers_.size());
Slot(loc, k) == U32Mod(U32Add(loc, k), N)

cur(t) == Slot(local[t], tries[t])

(* ------------------------------ PoolStats ------------------------------ *)
ZeroStats ==
    [numGet |-> 0, numPut |-> 0, numBroken |-> 0, numDial |-> 0,
     numDialFail |-> 0, numEvict |-> 0, numClose |-> 0]

Bump(st, f) == [st EXCEPT ![f] = @ + 1]

\* What a reader of getShardStats has when it adds one readout to another.
AddStats(a, b) == [f \in DOMAIN ZeroStats |-> a[f] + b[f]]

\* No call made yet.
NoCalls ==
    [get |-> 0, put |-> 0, reads |-> 0, total |-> [s \in Shards |-> ZeroStats]]

(* --------------------------- construction ------------------------------ *)
\* The values index_ is examined at: it is never initialised, so a pool may
\* start at any of them.
CursorInits ==
    {U32Add(<<LIMB - 1, LIMB - 2>>, k) : k \in 0..(CursorWindow - 1)}

\* PoolShard::PoolShard for every server; the shards of D are those the
\* health check thread has since marked unavailable.
InitShards(D) ==
    /\ available = [s \in Shards |-> s \notin D]
    /\ fails = [s \in Shards |-> IF s \in D THEN kMaxFails ELSE 0]
    /\ active = [s \in Shards |-> 0]
    /\ closed = [s \in Shards |-> FALSE]
    /\ draining = [s \in Shards |-> FALSE]
    /\ idle = [s \in Shards |-> <<>>]
    /\ stats = [s \in Shards |-> ZeroStats]
    /\ conns = <<>>

InitThreads ==
    /\ pc = [t \in Threads |-> "idle"]
    /\ local = [t \in Threads |-> <<0, 0>>]
    /\ tries = [t \in Threads |-> 0]
    /\ refs = [t \in Threads |-> {}]
    /\ result = [t \in Threads |-> 0]
    /\ late = [t \in Threads |-> FALSE]
    /\ signaled = [t \in Threads |-> FALSE]

\* The servers and the PoolConfig a pool is built with.
InitCfg ==
    /\ N \in 1..MaxShards
    /\ kMaxIdle \in 0..MaxIdleCfg
    /\ kMaxActive \in 0..MaxActiveCfg
    /\ kMaxFails \in 1..MaxFailsCfg

\* DPool::DPool, and the threads around it before their first step.
InitPool(D) ==
    /\ index \in CursorInits
    /\ numAvailable = N - Cardinality(D)
    /\ poolClosed = FALSE
    /\ InitShards(D)
    /\ InitThreads
    /\ pcP = "top"
    /\ it = 0
    /\ lastLog = "none"
    /\ lastProbe = <<>>
    /\ pcSh = "none"
    /\ calls = NoCalls

Init ==
    /\ InitCfg
    /\ kWait = FALSE
    /\ InitPool({})

(* ------------------------ condition variable --------------------------- *)
Waiters(s) == {w \in Threads : pc[w] = "waiting" /\ cur(w) = s /\ ~signaled[w]}

\* cv_.notify_one(): one blocked waiter of the shard, if there is any.
NotifyOne(s) ==
    IF Waiters(s) = {}
    THEN signaled' = signaled
    ELSE \E w \in Waiters(s) : signaled' = [signaled EXCEPT ![w] = TRUE]

(* ------------------------------ DPool::get ----------------------------- *)
PoolGetStart(t) ==
    /\ pc[t] = "idle"
    /\ local' = [local EXCEPT ![t] = index]
    /\ index' = FetchAdd(index)
    /\ tries' = [tries EXCEPT ![t] = 0]
    /\ pc' = [pc EXCEPT ![t] = "try"]
    /\ result' = [result EXCEPT ![t] = 0]
    /\ late' = [late EXCEPT ![t] = (pcSh = "done")]
    /\ calls' = [calls EXCEPT !.get = @ + 1]
    /\ UNCHANGED <<cfgVars, numAvailable, poolClosed, shardVars, refs, signaled,
                   proberVars, pcSh>>

\* A try that gave nothing: index_.fetch_add(1); continue;
NextTry(t) ==
    /\ index' = FetchAdd(index)
    /\ tries' = [tries EXCEPT ![t] = @ + 1]
    /\ pc' = [pc EXCEPT ![t] = "try"]

\* DPool::get returns pc.
Return(t, c) ==
    /\ result' = [result EXCEPT ![t] = c]
    /\ refs' = [refs EXCEPT ![t] = @ \cup {c}]
    /\ pc' = [pc EXCEPT ![t] = "idle"]

PoolGetSkip(t) ==
    /\ pc[t] = "try"
    /\ tries[t] < MAX_TRIES
    /\ ~available[cur(t)]
    /\ NextTry(t)
    /\ UNCHANGED <<cfgVars, numAvailable, poolClosed, shardVars, local, refs,
                   result, late, signaled, proberVars, pcSh, calls>>

PoolGetExhausted(t) ==
    /\ pc[t] = "try"
    /\ tries[t] = MAX_TRIES
    /\ result' = [result EXCEPT ![t] = Exhausted]
    /\ pc' = [pc EXCEPT ![t] = "idle"]
    /\ UNCHANGED <<cfgVars, poolVars, shardVars, local, tries, refs, late,
                   signaled, proberVars, pcSh, calls>>

(* --------------------------- PoolShard::get ---------------------------- *)
\* The thread is at the top of the while (true) of PoolShard::get with mtx_
\* held: on entry ("try", after numGet++) or after a wake-up ("woken").
InLoop(t) ==
    \/ pc[t] = "try" /\ tries[t] < MAX_TRIES /\ available[cur(t)]
    \/ pc[t] = "woken"

\* stats_.numGet++ is done once, on entry.
Entered(t, st) == IF pc[t] = "try" THEN Bump(st, "numGet") ELSE st

\* The front connection left in the list.
PopFrontSkipped(q) == q

\* idle_.pop_front()
PopFront(q) == Tail(q)

\* The bound tested with <= for <.
HasCapacityLoose(s) == kMaxActive = 0 \/ active[s] <= kMaxActive

\* if (kMaxActive_ == 0 || active_ < kMaxActive_)
HasCapacity(s) == kMaxActive = 0 \/ active[s] < kMaxActive

ShardGetIdle(t) ==
    LET s == cur(t)
        c == Head(idle[s])
    IN  /\ InLoop(t)
        /\ idle[s] # <<>>
        /\ idle' = [idle EXCEPT ![s] = PopFront(@)]
        /\ conns' = [conns EXCEPT ![c].borrowed = TRUE]
        /\ stats' = [stats EXCEPT ![s] = Entered(t, @)]
        /\ Return(t, c)
        /\ UNCHANGED <<cfgVars, poolVars, available, fails, active, closed,
                       draining, local, tries, late, signaled, proberVars, pcSh,
                       calls>>

ShardGetClosed(t) ==
    LET s == cur(t)
    IN  /\ InLoop(t)
        /\ idle[s] = <<>>
        /\ closed[s]
        /\ stats' = [stats EXCEPT ![s] = Entered(t, @)]
        /\ NextTry(t)
        /\ UNCHANGED <<cfgVars, numAvailable, poolClosed, available, fails,
                       active, closed, draining, idle, conns, local, refs,
                       result, late, signaled, proberVars, pcSh, calls>>

ShardGetDial(t) ==
    LET s == cur(t)
    IN  /\ InLoop(t)
        /\ idle[s] = <<>>
        /\ ~closed[s]
        /\ HasCapacity(s)
        /\ active' = [active EXCEPT ![s] = @ + 1]
        /\ stats' = [stats EXCEPT ![s] = Bump(Entered(t, @), "numDial")]
        /\ pc' = [pc EXCEPT ![t] = "open"]
        /\ UNCHANGED <<cfgVars, poolVars, available, fails, closed, draining,
                       idle, conns, local, tries, refs, result, late, signaled,
                       proberVars, pcSh, calls>>

\* Capacity exhausted and !kWait_: return nullptr.
ShardGetFull(t) ==
    LET s == cur(t)
    IN  /\ InLoop(t)
        /\ idle[s] = <<>>
        /\ ~closed[s]
        /\ ~HasCapacity(s)
        /\ ~kWait
        /\ stats' = [stats EXCEPT ![s] = Entered(t, @)]
        /\ NextTry(t)
        /\ UNCHANGED <<cfgVars, numAvailable, poolClosed, available, fails,
                       active, closed, draining, idle, conns, local, refs,
                       result, late, signaled, proberVars, pcSh, calls>>

\* Capacity exhausted and kWait_: cv_.wait_until(lck, abs_time) blocks.
ShardGetWait(t) ==
    LET s == cur(t)
    IN  /\ InLoop(t)
        /\ idle[s] = <<>>
        /\ ~closed[s]
        /\ ~HasCapacity(s)
        /\ kWait
        /\ stats' = [stats EXCEPT ![s] = Entered(t, @)]
        /\ pc' = [pc EXCEPT ![t] = "waiting"]
        /\ signaled' = [signaled EXCEPT ![t] = FALSE]
        /\ UNCHANGED <<cfgVars, poolVars, available, fails, active, closed,
                       draining, idle, conns, local, tries, refs, result, late,
                       proberVars, pcSh, calls>>

\* wait_until returns no_timeout: the waiter was notified and loops.
WaitNotified(t) ==
    /\ pc[t] = "waiting"
    /\ signaled[t]
    /\ pc' = [pc EXCEPT ![t] = "woken"]
    /\ signaled' = [signaled EXCEPT ![t] = FALSE]
    /\ UNCHANGED <<cfgVars, poolVars, shardVars, local, tries, refs, result,
                   late, proberVars, pcSh, calls>>

\* wait_until returns timeout: return nullptr.
WaitTimeout(t) ==
    /\ pc[t] = "waiting"
    /\ NextTry(t)
    /\ signaled' = [signaled EXCEPT ![t] = FALSE]
    /\ UNCHANGED <<cfgVars, numAvailable, poolClosed, shardVars, local, refs,
                   result, late, proberVars, pcSh, calls>>

\* c->open() succeeded, with mtx_ released.
OpenOk(t) ==
    LET s == cur(t)
        c == Len(conns) + 1
    IN  /\ pc[t] = "open"
        /\ fails' = [fails EXCEPT ![s] = 0]
        /\ conns' = Append(conns, [shard |-> s, borrowed |-> TRUE])
        /\ Return(t, c)
        /\ UNCHANGED <<cfgVars, poolVars, available, active, closed, draining,
                       idle, stats, local, tries, late, signaled, proberVars,
                       pcSh, calls>>

\* c->open() threw: fails_.fetch_add(1), before mtx_ is taken again.
OpenFail(t) ==
    LET s == cur(t)
    IN  /\ pc[t] = "open"
        /\ fails' = [fails EXCEPT ![s] = @ + 1]
        /\ pc' = [pc EXCEPT ![t] = "rollback"]
        /\ UNCHANGED <<cfgVars, poolVars, available, active, closed, draining,
                       idle, stats, conns, local, tries, refs, result, late,
                       signaled, proberVars, pcSh, calls>>

\* The count left as it was.
ActiveKept(a) == a

\* active_-- after an open() that threw
ActiveAfterRollback(a) == a - 1

\* lck.lock(); active_--; stats_.numDialFail++; unlock; notify_one; return nullptr
Rollback(t) ==
    LET s == cur(t)
    IN  /\ pc[t] = "rollback"
        /\ active' = [active EXCEPT ![s] = ActiveAfterRollback(@)]
        /\ stats' = [stats EXCEPT ![s] = Bump(@, "numDialFail")]
        /\ NotifyOne(s)
        /\ NextTry(t)
        /\ UNCHANGED <<cfgVars, numAvailable, poolClosed, available, fails,
                       closed, draining, idle, conns, local, refs, result, late,
                       proberVars, pcSh, calls>>

(* --------------------------- PoolShard::put ---------------------------- *)
\* No put taken for a duplicate.
NeverDuplicate(c) == FALSE

\* if (!pc->isBorrowed())
IsDuplicate(c) == ~conns[c].borrowed

\* A broken connection parked like a clean one.
ParksBroken(s, broken) == ~closed[s]

\* if (!closed_.load(std::memory_order_relaxed) && !broken)
Parks(s, broken) == ~closed[s] /\ ~broken

\* The connection put at the back of the list.
PushBack(q, c) == q \o <<c>>

\* idle_.push_front(pc)
PushFront(q, c) == <<c>> \o q

\* The list allowed one connection more.
OverflowsLate(q) == Len(q) > kMaxIdle + 1

\* if (idle_.size() > kMaxIdle_), after the push_front
Overflows(q) == Len(q) > kMaxIdle

\* idle_.pop_back(): the list without its tail.
PopBack(q) == SubSeq(q, 1, Len(q) - 1)

\* active_-- of a connection that is closed rather than parked.
ActiveAfterClose(a) == a - 1

\* PoolShard::put: one critical section followed by cv_.notify_one().
ShardPut(t, c, broken) ==
    LET s == conns[c].shard
        parked == Parks(s, broken)
        pushed == PushFront(idle[s], c)
        evict == parked /\ Overflows(pushed)
        discard == ~parked \/ evict
        counted == Bump(stats[s], "numPut")
        st1 == IF broken THEN Bump(counted, "numBroken") ELSE counted
        st2 == IF evict THEN Bump(st1, "numEvict") ELSE st1
        st3 == IF discard THEN Bump(st2, "numClose") ELSE st2
    IN  /\ pc[t] = "idle"
        /\ c \in refs[t]
        /\ calls' = [calls EXCEPT !.put = @ + 1]
        /\ IF IsDuplicate(c)
           THEN /\ stats' = [stats EXCEPT ![s] = counted]
                /\ UNCHANGED <<conns, fails, idle, active, signaled>>
           ELSE /\ conns' = [conns EXCEPT ![c].borrowed = FALSE]
                /\ fails' = [fails EXCEPT ![s] = IF broken THEN @ + 1 ELSE 0]
                /\ idle' = [idle EXCEPT ![s] =
                               IF ~parked THEN @
                               ELSE IF evict THEN PopBack(pushed) ELSE pushed]
                /\ active' = [active EXCEPT ![s] =
                               IF discard THEN ActiveAfterClose(@) ELSE @]
                /\ stats' = [stats EXCEPT ![s] = st3]
                /\ NotifyOne(s)
        /\ UNCHANGED <<cfgVars, poolVars, available, closed, draining, pc,
                       local, tries, result, late, proberVars, pcSh>>

\* DPool::put finds the shard by the connection's back-pointer and calls
\* PoolShard::put; the caller keeps its own shared_ptr.
Put(t, c, broken) == ShardPut(t, c, broken) /\ UNCHANGED refs

\* DPool::put by a caller that lets go of its shared_ptr with the call.
PutAndDrop(t, c, broken) ==
    /\ ShardPut(t, c, broken)
    /\ refs' = [refs EXCEPT ![t] = @ \ {c}]

(* ----------------------- PoolShard::close, empty ----------------------- *)
\* closed_.compare_exchange_strong(expected, true) succeeded
CloseStart(s) ==
    /\ ~closed[s]
    /\ closed' = [closed EXCEPT ![s] = TRUE]
    /\ draining' = [draining EXCEPT ![s] = TRUE]
    /\ UNCHANGED <<cfgVars, poolVars, available, fails, active, idle, stats,
                   conns, threadVars, proberVars, pcSh, calls>>

\* One turn of the while (!idle_.empty()) of empty().
Drain(s) ==
    /\ draining[s]
    /\ idle[s] # <<>>
    /\ idle' = [idle EXCEPT ![s] = PopFront(@)]
    /\ active' = [active EXCEPT ![s] = ActiveAfterClose(@)]
    /\ stats' = [stats EXCEPT ![s] = Bump(@, "numClose")]
    /\ NotifyOne(s)
    /\ UNCHANGED <<cfgVars, poolVars, available, fails, closed, draining, conns,
                   pc, local, tries, refs, result, late, proberVars, pcSh, calls>>

\* empty() finds idle_ empty and close() returns.
DrainEnd(s) ==
    /\ draining[s]
    /\ idle[s] = <<>>
    /\ draining' = [draining EXCEPT ![s] = FALSE]
    /\ UNCHANGED <<cfgVars, poolVars, available, fails, active, closed, idle,
                   stats, conns, threadVars, proberVars, pcSh, calls>>

(* ---------------------- PoolShard::getShardStats ------------------------ *)
\* The counters left as they are by a readout.
StatsKept(st) == st

\* stats_.reset()
StatsAfterRead(st) == ZeroStats

\* st.numGet = stats_.numGet; ... stats_.reset(); under mtx_.  The reader
\* adds what it is given to what it was given before.
getShardStats(s) ==
    /\ calls' = [calls EXCEPT !.reads = @ + 1,
                              !.total[s] = AddStats(@, stats[s])]
    /\ stats' = [stats EXCEPT ![s] = StatsAfterRead(@)]
    /\ UNCHANGED <<cfgVars, poolVars, available, fails, active, closed, draining,
                   idle, conns, threadVars, proberVars, pcSh>>

(* ------------------------ health check thread -------------------------- *)
\* PoolShard::isSuspectable
isSuspectable(s) == fails[s] >= kMaxFails

\* The guard with >= for >.
QuorumGuardWeak == numAvailable * 3 >= N * 2

\* if (numAvailable_*3 > servers_.size()*2)
QuorumGuard == numAvailable * 3 > N * 2

\* The count left as it was.
NumAvailableKept(n) == n

\* numAvailable_--
NumAvailableAfterDown(n) == n - 1

\* numAvailable_++
NumAvailableAfterUp(n) == n + 1

\* One open() attempt made where the code makes two.
checkServerOnce(first, second) == first

\* DPool::checkServer: up to two open() attempts, true when one succeeds.
checkServer(first, second) == first \/ second

\* The open() attempts of one checkServer that threw ("Connect server
\* failed"): it returns at the first that succeeds.
ProbeFailures(first, second) == IF first THEN 0 ELSE IF second THEN 1 ELSE 2

\* DPool::markAvailable(shard, b), with PoolShard::markAvailable's
\* compare_exchange_strong.
markAvailable(s, b) ==
    IF b
    THEN IF ~available[s]
         THEN /\ available' = [available EXCEPT ![s] = TRUE]
              /\ numAvailable' = NumAvailableAfterUp(numAvailable)
              /\ lastLog' = "recovered"
         ELSE UNCHANGED <<available, numAvailable, lastLog>>
    ELSE IF QuorumGuard
         THEN IF available[s]
              THEN /\ available' = [available EXCEPT ![s] = FALSE]
                   /\ numAvailable' = NumAvailableAfterDown(numAvailable)
                   /\ lastLog' = "down"
              ELSE UNCHANGED <<available, numAvailable, lastLog>>
         ELSE /\ lastLog' = "refused"
              /\ UNCHANGED <<available, numAvailable>>

\* while (!closed_.load()) { sleep_for(1s); for (it = begin ...
ProberWake ==
    /\ pcP = "top"
    /\ ~poolClosed
    /\ pcP' = "scan"
    /\ it' = 0
    /\ UNCHANGED <<cfgVars, poolVars, shardVars, threadVars, lastLog, lastProbe,
                   pcSh, calls>>

\* the while condition fails: the thread ends
ProberExit ==
    /\ pcP = "top"
    /\ poolClosed
    /\ pcP' = "exited"
    /\ UNCHANGED <<cfgVars, poolVars, shardVars, threadVars, it, lastLog, lastProbe, pcSh,
                   calls>>

\* if (!shard->isSuspectable() && shard->isAvailable()) continue;
ProberSkip ==
    /\ pcP = "scan"
    /\ it < N
    /\ ~isSuspectable(it) /\ available[it]
    /\ it' = it + 1
    /\ UNCHANGED <<cfgVars, poolVars, shardVars, threadVars, pcP, lastLog, lastProbe, pcSh,
                   calls>>

\* A probe that succeeds clearing the shard's fails_.
FailsResetByProbe(f, s, ok) == IF ok THEN [f EXCEPT ![s] = 0] ELSE f

\* checkServer opens a connection of its own (std::make_shared<T>(addr, ...)),
\* not one of the shard: fails_ is as it was, whatever the probe gives.
FailsAfterProbe(f, s, ok) == f

\* bool ok = checkServer(addr); markAvailable(shard, ok);
ProberCheck ==
    /\ pcP = "scan"
    /\ it < N
    /\ ~(~isSuspectable(it) /\ available[it])
    /\ \E first, second \in BOOLEAN :
          /\ markAvailable(it, checkServer(first, second))
          /\ fails' = FailsAfterProbe(fails, it, checkServer(first, second))
          /\ lastProbe' = <<it, ProbeFailures(first, second)>>
    /\ it' = it + 1
    /\ UNCHANGED <<cfgVars, index, poolClosed, active, closed, draining,
                   idle, stats, conns, threadVars, pcP, pcSh, calls>>

\* the for loop ends; back to the while condition
ProberScanEnd ==
    /\ pcP = "scan"
    /\ it = N
    /\ pcP' = "top"
    /\ UNCHANGED <<cfgVars, poolVars, shardVars, threadVars, it, lastLog, lastProbe, pcSh,
                   calls>>

(* --------------------------- DPool::shutdown --------------------------- *)
\* closed_.compare_exchange_strong(expected, true) succeeded
ShutdownCall ==
    /\ pcSh = "none"
    /\ ~poolClosed
    /\ poolClosed' = TRUE
    /\ pcSh' = "join"
    /\ UNCHANGED <<cfgVars, index, numAvailable, shardVars, threadVars,
                   proberVars, calls>>

\* healthCheckThread_.join() returns; shutdown() returns ("// TODO").
ShutdownJoin ==
    /\ pcSh = "join"
    /\ pcP = "exited"
    /\ pcSh' = "done"
    /\ UNCHANGED <<cfgVars, poolVars, shardVars, threadVars, proberVars, calls>>

(* --------------------------- specifications ---------------------------- *)
\* Steps taken within bounds: at most maxCalls gets are made, at most
\* maxConns connections opened, at most maxPuts puts made, and fails_ is
\* driven no further than FailsCap.
StartStep(t, maxCalls) == calls.get < maxCalls /\ PoolGetStart(t)

OpenStep(t, maxConns) ==
    \/ Len(conns) < maxConns /\ OpenOk(t)
    \/ pc[t] = "open" /\ fails[cur(t)] < FailsCap /\ OpenFail(t)

PutStep(t, maxPuts) ==
    \E c \in ConnIds, broken \in BOOLEAN :
        /\ calls.put < maxPuts
        /\ broken => fails[conns[c].shard] < FailsCap
        /\ Put(t, c, broken)

\* The steps of DPool::get and PoolShard::get that need no bound.
GetStep(t) ==
    \/ PoolGetExhausted(t)
    \/ ShardGetDial(t)
    \/ Rollback(t)

\* A caller of the pool as built (kWait_ = false).
CallerStep(t, maxCalls, maxPuts, maxConns) ==
    \/ StartStep(t, maxCalls)
    \/ OpenStep(t, maxConns)
    \/ PutStep(t, maxPuts)
    \/ GetStep(t)
    \/ ShardGetIdle(t)
    \/ ShardGetFull(t)

\* A caller of a pool whose shards wait for a connection (kWait_ = true).
WaitingCallerStep(t, maxCalls, maxPuts, maxConns) ==
    \/ StartStep(t, maxCalls)
    \/ OpenStep(t, maxConns)
    \/ PutStep(t, maxPuts)
    \/ GetStep(t)
    \/ ShardGetIdle(t)
    \/ ShardGetWait(t)
    \/ WaitNotified(t)
    \/ WaitTimeout(t)

CloseStep(s) == CloseStart(s) \/ Drain(s) \/ DrainEnd(s)

ProberStep == ProberWake \/ ProberExit \/ ProberSkip \/ ProberCheck \/ ProberScanEnd

ShutdownStep == ShutdownCall \/ ShutdownJoin

\* The pool as a client of DPool drives it: callers, the health check thread
\* and shutdown().  (DPool closes its shards in its destructor only.)  Within
\* PoolCalls no caller meets an idle connection or a full shard, so those two
\* steps are left to SpecShard.
Next ==
    \/ \E t \in Threads :
          \/ StartStep(t, PoolCalls)
          \/ OpenStep(t, PoolConns)
          \/ PutStep(t, PoolPuts)
          \/ GetStep(t)
          \/ PoolGetSkip(t)
    \/ ProberStep
    \/ ShutdownStep

Spec == Init /\ [][Next]_vars

\* The same pool with the health check thread scheduled again and again: it
\* is a thread of its own that sleeps a second between scans.
SpecLive == Init /\ [][Next]_vars /\ WF_vars(ProberStep)

\* One shard under concurrent get, put and close (PoolShard::close is public
\* and is what ~PoolShard runs).  isSuspectable is not evaluated here, so
\* kMaxFails is left at one value.
InitShard ==
    /\ Init
    /\ N = 1
    /\ kMaxFails = 1

NextShard ==
    \/ \E t \in Threads :
          CallerStep(t, ShardCalls, ShardPuts, ShardConns) \/ ShardGetClosed(t)
    \/ \E s \in Shards : CloseStep(s)

SpecShard == InitShard /\ [][NextShard]_vars

\* The wait branch of PoolShard::get (pool-shard.h, "if (!kWait_)" and the
\* wait_until after it) as it is written, taken with kWait_ true: one bounded
\* shard whose callers block, and shutdown() joining the health check thread.
\* The member is declared "const bool kWait_ = false" and no constructor
\* sets it, so a pool as built never enters this branch; Spec, SpecShard and
\* SpecSeq are the pool as built.
InitWait ==
    /\ InitCfg
    /\ kWait = TRUE
    /\ N = 1
    /\ kMaxActive >= 1
    /\ kMaxFails = 1
    /\ InitPool({})

NextWait ==
    \/ \E t \in Threads : WaitingCallerStep(t, WaitCalls, WaitPuts, WaitConns)
    \/ ProberExit
    \/ ShutdownStep

SpecWait == InitWait /\ [][NextWait]_vars

\* The sets of shards the health check thread can have marked unavailable:
\* each mark-down passed the guard of DPool::markAvailable.
DownSets ==
    {D \in SUBSET Shards :
        \A k \in 1..Cardinality(D) : (N - (k - 1)) * 3 > N * 2}

\* One caller alone making DPool::get calls and keeping what it gets, on a
\* pool whose prober has marked the shards of some D unavailable (their
\* fails_ had reached kMaxFails_) and whose stats have been read out.
InitSeq ==
    /\ InitCfg
    /\ kWait = FALSE
    /\ \E D \in DownSets : InitPool(D)

\* The single caller: the first thread.
Caller == CHOOSE t \in Threads : \A u \in Threads : t <= u

NextSeq ==
    \/ StartStep(Caller, SeqCalls)
    \/ OpenStep(Caller, SeqCalls)
    \/ GetStep(Caller)
    \/ ShardGetFull(Caller)
    \/ PoolGetSkip(Caller)

SpecSeq == InitSeq /\ [][NextSeq]_vars

\* One caller alone making a DPool::get on a pool of up to CoverShards
\* servers, some of them marked unavailable, where an open() may throw.
InitCover ==
    /\ N \in 1..CoverShards
    /\ kMaxIdle \in 0..MaxIdleCfg
    /\ kMaxActive \in 0..MaxActiveCfg
    /\ kMaxFails \in 1..MaxFailsCfg
    /\ kWait = FALSE
    /\ \E D \in DownSets : InitPool(D)

NextCover ==
    \/ StartStep(Caller, CoverCalls)
    \/ PoolGetSkip(Caller)
    \/ ShardGetDial(Caller)
    \/ OpenStep(Caller, CoverCalls)
    \/ Rollback(Caller)
    \/ PoolGetExhausted(Caller)

SpecCover == InitCover /\ [][NextCover]_vars

\* One caller alone on one shard that puts back what it got before it gets
\* again (clean, broken, or more than once), on a shard where earlier callers
\* have left some connections parked and whose stats have been read out.
ParkedInits == {j \in 0..kMaxIdle : kMaxActive = 0 \/ j <= kMaxActive}

InitCycle ==
    /\ N = 1
    /\ kMaxIdle \in 0..CycleIdle
    /\ kMaxActive \in 0..MaxActiveCfg
    /\ kMaxFails = 1
    /\ kWait = FALSE
    /\ index \in CursorInits
    /\ numAvailable = N
    /\ poolClosed = FALSE
    /\ available = [s \in Shards |-> TRUE]
    /\ fails = [s \in Shards |-> 0]
    /\ closed = [s \in Shards |-> FALSE]
    /\ draining = [s \in Shards |-> FALSE]
    /\ stats = [s \in Shards |-> ZeroStats]
    /\ \E j \in ParkedInits :
          /\ conns = [c \in 1..j |-> [shard |-> 0, borrowed |-> FALSE]]
          /\ idle = [s \in Shards |-> [i \in 1..j |-> j + 1 - i]]
          /\ active = [s \in Shards |-> j]
    /\ InitThreads
    /\ pcP = "top"
    /\ it = 0
    /\ lastLog = "none"
    /\ lastProbe = <<>>
    /\ pcSh = "none"
    /\ calls = NoCalls

\* The caller holds no connection.
HoldsNothing == \A c \in ConnIds : ~conns[c].borrowed

CycleGet == HoldsNothing /\ StartStep(Caller, CycleCalls)

CyclePut ==
    \E broken \in BOOLEAN :
        /\ calls.put < CyclePuts
        /\ result[Caller] > 0
        /\ broken => fails[conns[result[Caller]].shard] < FailsCap
        /\ Put(Caller, result[Caller], broken)

NextCycle ==
    \/ CycleGet
    \/ ShardGetIdle(Caller)
    \/ ShardGetDial(Caller)
    \/ OpenStep(Caller, CycleIdle + CycleConns)
    \/ Rollback(Caller)
    \/ CyclePut

SpecCycle == InitCycle /\ [][NextCycle]_vars

\* One shard under concurrent get, put, close and stats readout.  With one
\* shard every cursor value gives slot 0, so one value is taken.
InitStats == InitShard /\ index = <<0, 0>>

ReadStep(s, maxReads) == calls.reads < maxReads /\ getShardStats(s)

NextStats ==
    \/ \E t \in Threads :
          CallerStep(t, StatCalls, StatPuts, StatConns) \/ ShardGetClosed(t)
    \/ \E s \in Shards : CloseStep(s) \/ ReadStep(s, StatReads)

SpecStats == InitStats /\ [][NextStats]_vars

\* One shard under concurrent get, put and close by callers that let go of
\* a connection when they put it: refs[t] is what caller t holds.
OwnPutStep(t) ==
    \E c \in ConnIds, broken \in BOOLEAN :
        /\ calls.put < ShardPuts
        /\ broken => fails[conns[c].shard] < FailsCap
        /\ PutAndDrop(t, c, broken)

NextOwn ==
    \/ \E t \in Threads :
          \/ StartStep(t, ShardCalls)
          \/ OpenStep(t, ShardConns)
          \/ OwnPutStep(t)
          \/ GetStep(t)
          \/ ShardGetIdle(t)
          \/ ShardGetFull(t)
          \/ ShardGetClosed(t)
    \/ \E s \in Shards : CloseStep(s)

SpecOwn == InitShard /\ [][NextOwn]_vars

(* ----------------------------- properties ------------------------------ *)
Unavailable == {s \in Shards : ~available[s]}

\* C1: no more than one third of the shards are unavailable at the same
\* time (3 * |unavailable| <= N), whatever N >= 1 is; in particular the
\* prober never makes every shard unavailable.
C1_AtMostOneThirdDown ==
    /\ 3 * Cardinality(Unavailable) <= N
    /\ Unavailable # Shards

\* C2: a shard's flag goes from true to false (numAvailable going down by
\* exactly 1) only in a step before which numAvailable * 3 > N * 2 held;
\* while that guard is false no flag goes down and numAvailable does not
\* decrease; and with N = 3 the mark-downs leave numAvailable at 2 or more.
C2_MarkDownOnlyUnderQuorum ==
    /\ [][\A s \in Shards :
            (available[s] /\ ~available'[s]) =>
                /\ numAvailable * 3 > N * 2
                /\ numAvailable' = numAvailable - 1]_vars
    /\ [][~(numAvailable * 3 > N * 2) =>
            /\ numAvailable' >= numAvailable
            /\ \A s \in Shards : available[s] => available'[s]]_vars
    /\ [](N = 3 => numAvailable >= 2)

\* With three shards, one mark-down went through and the next one was refused.
C2_SecondMarkDownRefused ==
    /\ N = 3
    /\ numAvailable = 2
    /\ Cardinality(Unavailable) = 1
    /\ lastLog = "refused"

Flipped == {s \in Shards : available[s] # available'[s]}

\* C3: numAvailable is the number of shards whose flag is true; it starts at
\* N with every shard available, and a step changes it or a flag only as a
\* step of the health check thread on the shard it is at, by +1 exactly
\* when that flag goes false -> true and by -1 exactly when it goes
\* true -> false.
C3_NumAvailableCountsFlags ==
    /\ numAvailable = N
    /\ \A s \in Shards : available[s]
    /\ [](numAvailable = Cardinality({s \in Shards : available[s]}))
    /\ [][(numAvailable' # numAvailable \/ available' # available) =>
            /\ pcP = "scan"
            /\ it' = it + 1
            /\ Flipped = {it}
            /\ numAvailable' = IF available[it] THEN numAvailable - 1
                                               ELSE numAvailable + 1]_vars

\* A shard was marked down and has been marked up again.
C3_DownThenRecovered ==
    /\ lastLog = "recovered"
    /\ numAvailable = N
    /\ \E s \in Shards : fails[s] >= kMaxFails

\* The connections of shard s that are out with a caller.
Borrowed(s) == {c \in ConnIds : conns[c].shard = s /\ conns[c].borrowed}

\* The callers inside PoolShard::get of shard s past its first critical section.
InGet(s) ==
    {t \in Threads : pc[t] \in {"open", "rollback", "waiting", "woken"} /\ cur(t) = s}

\* C4: with kMaxActive > 0, active <= kMaxActive for every shard in every
\* state between critical sections, whatever gets, puts and closes
\* interleave, an open() in flight included.
C4_ActiveWithinMaxActive ==
    kMaxActive > 0 => \A s \in Shards : active[s] <= kMaxActive

\* One caller's open() is in flight on the shard's only slot and another
\* caller's try was turned away by the full, open shard.
C4_FullWhileOpenInFlight ==
    /\ kMaxActive = 1
    /\ \E t, u \in Threads :
          /\ t # u
          /\ pc[t] = "open"
          /\ pc[u] = "try" /\ tries[u] > 0
          /\ active[cur(t)] = 1
          /\ ~closed[cur(t)]
          /\ stats[cur(t)].numDial = 1
          /\ stats[cur(t)].numGet = 2

\* The connection a step's put takes back from its borrower.
Released(s) == {c \in Borrowed(s) : ~conns'[c].borrowed}

\* C5: the idle list never holds more than kMaxIdle connections; a clean
\* put on an open shard whose idle list is at kMaxIdle removes exactly one
\* connection, the one at the tail of the list after the push (the put
\* connection itself when kMaxIdle = 0), and adds 1 to numEvict; and
\* numEvict changes in no other step.
C5_IdleWithinMaxIdle ==
    /\ [](\A s \in Shards : Len(idle[s]) <= kMaxIdle)
    /\ [][\A s \in Shards : \A c \in Released(s) :
            (/\ ~closed[s]
             /\ stats'[s].numBroken = stats[s].numBroken
             /\ Len(idle[s]) = kMaxIdle) =>
                /\ idle'[s] = SubSeq(<<c>> \o idle[s], 1, kMaxIdle)
                /\ stats'[s].numEvict = stats[s].numEvict + 1
                /\ active'[s] = active[s] - 1]_vars
    /\ [][\A s \in Shards :
            stats'[s].numEvict # stats[s].numEvict =>
                /\ stats'[s].numEvict = stats[s].numEvict + 1
                /\ Len(idle[s]) = kMaxIdle
                /\ \E c \in Released(s) :
                      idle'[s] = SubSeq(<<c>> \o idle[s], 1, kMaxIdle)]_vars

\* With kMaxIdle = 1 a second clean put has evicted the connection that was
\* parked first; the one put last is the one left.
C5_TailEvicted ==
    /\ kMaxIdle = 1
    /\ \E s \in Shards :
          /\ stats[s].numEvict = 1
          /\ Len(idle[s]) = 1
          /\ stats[s].numPut = 2
          /\ stats[s].numBroken = 0
          /\ ~closed[s]

\* C6: for every shard with no caller inside its get and no close draining
\* it, active >= 0 and active = (its borrowed connections) + (its idle
\* connections).
C6_ActiveIsBorrowedPlusIdle ==
    \A s \in Shards :
        (InGet(s) = {} /\ ~draining[s]) =>
            /\ active[s] >= 0
            /\ active[s] = Cardinality(Borrowed(s)) + Len(idle[s])

\* After a failed open, a broken put and a clean put the shard is at rest
\* with one connection parked.
C6_AfterFailedOpenAndBrokenPut ==
    \E s \in Shards :
        /\ InGet(s) = {} /\ ~draining[s]
        /\ stats[s].numDialFail >= 1
        /\ stats[s].numBroken = 1
        /\ stats[s].numPut = 2
        /\ Len(idle[s]) = 1
        /\ active[s] = 1

\* C7: once shutdown() has returned, every shard's idle list is empty and no
\* DPool::get that starts afterwards returns a connection.
C7_ShutdownStopsAcquires ==
    pcSh = "done" =>
        /\ \A s \in Shards : idle[s] = <<>>
        /\ \A t \in Threads : (late[t] /\ pc[t] = "idle") => result[t] <= 0

SlotOf(t) == (U32Mod(local[t], N) + tries[t]) % N

\* C9: try number k of a DPool::get (k < 5) is at shard (local + k) mod N,
\* local being the cursor value the call fetched on entry.
C9_SlotIsLocalPlusTry ==
    \A t \in Threads :
        (pc[t] \in {"try", "open", "rollback"} /\ tries[t] < MAX_TRIES) =>
            cur(t) = SlotOf(t)

\* The connections opened on shard s.
Opened(s) == {c \in ConnIds : conns[c].shard = s}

\* C10: with shards A, B, C = 0, 1, 2 of which only B is unavailable, no
\* limit on active connections and every open() succeeding, a caller alone
\* that has made six DPool::get calls holds three connections of A and three
\* of C, whatever value the cursor started at.
C10_ThreeOfAThreeOfC ==
    (/\ N = 3
     /\ Unavailable = {1}
     /\ kMaxActive = 0
     /\ \A s \in Shards : stats[s].numDialFail = 0
     /\ calls.get = SeqCalls
     /\ pc[Caller] = "idle"
     /\ Len(conns) = SeqCalls) =>
        /\ Cardinality(Opened(0)) = 3
        /\ Cardinality(Opened(2)) = 3

\* The elements of a list.
Range(q) == {q[i] : i \in 1..Len(q)}

\* C11: a connection put back clean on an open shard and not evicted is at
\* the front of the idle list; a PoolShard::get entered on a shard whose idle
\* list is not empty returns the connection at its front and leaves numDial,
\* active and the set of connections as they were; and on a fresh shard with
\* kMaxIdle >= 1, k >= 1 cycles of get then clean put and nothing else give
\* numDial = 1, numGet = k, numPut = k and one idle connection.
C11_IdleIsLifo ==
    /\ [][\A s \in Shards : \A c \in Released(s) :
            c \in Range(idle'[s]) =>
                idle'[s] = SubSeq(<<c>> \o idle[s], 1, Len(idle'[s]))]_vars
    /\ [][\A s \in Shards :
            (idle[s] # <<>> /\ stats'[s].numGet = stats[s].numGet + 1) =>
                /\ \E t \in Threads :
                      /\ pc[t] = "try" /\ pc'[t] = "idle"
                      /\ result'[t] = Head(idle[s])
                /\ idle'[s] = Tail(idle[s])
                /\ stats'[s].numDial = stats[s].numDial
                /\ active'[s] = active[s]
                /\ Len(conns') = Len(conns)]_vars
    /\ [](\A s \in Shards :
            (/\ kMaxIdle >= 1
             /\ stats[s].numDial = Len(conns)
             /\ stats[s].numBroken = 0
             /\ stats[s].numDialFail = 0
             /\ HoldsNothing
             /\ pc[Caller] = "idle"
             /\ calls.get >= 1
             /\ calls.put = calls.get) =>
                /\ stats[s].numDial = 1
                /\ stats[s].numGet = calls.get
                /\ stats[s].numPut = calls.get
                /\ Len(idle[s]) = 1)

\* Three cycles of get then clean put on a fresh shard are done, all with the
\* one connection the first get opened.
C11_ThreeCyclesDone ==
    /\ kMaxIdle >= 1
    /\ calls.get = CycleCalls
    /\ calls.put = CycleCalls
    /\ HoldsNothing
    /\ stats[0].numDial = 1
    /\ Len(conns) = 1
    /\ stats[0].numGet = CycleCalls
    /\ idle[0] = <<1>>

\* C12: a put of a connection whose borrowed flag is false (the put takes no
\* connection back from a borrower) changes numPut of one shard and nothing
\* else: every idle list, active count, fails counter, borrowed flag and
\* other stats counter is as before.
C12_DuplicatePutDropped ==
    [][(calls.put' = calls.put + 1 /\ \A s \in Shards : Released(s) = {}) =>
          /\ idle' = idle
          /\ active' = active
          /\ fails' = fails
          /\ conns' = conns
          /\ \E s \in Shards :
                stats' = [stats EXCEPT ![s] = Bump(@, "numPut")]]_vars

\* The one connection of the shard was got once and put twice: it is parked
\* once and counted once.
C12_PutTwice ==
    /\ Len(conns) = 1
    /\ stats[0].numGet = 1
    /\ stats[0].numPut = 2
    /\ stats[0].numBroken = 0
    /\ idle[0] = <<1>>
    /\ active[0] = 1
    /\ ~closed[0]

\* The connections of shard s that are neither out with a caller nor parked.
Discarded(s) == {c \in Opened(s) : ~conns[c].borrowed /\ c \notin Range(idle[s])}

\* C13: a put with broken = true of a borrowed connection leaves the idle
\* list as it was and the connection out of it, takes 1 from active and adds
\* 1 to fails, numBroken and numClose; a connection neither borrowed nor
\* parked is never parked or borrowed again; and on a fresh shard get, put
\* broken, get gives a second connection with numBroken = 1, numDial = 2,
\* numClose = 1.
C13_BrokenPutDiscards ==
    /\ [][\A s \in Shards : \A c \in Released(s) :
            stats'[s].numBroken # stats[s].numBroken =>
                /\ idle'[s] = idle[s]
                /\ c \in Discarded(s)'
                /\ active'[s] = active[s] - 1
                /\ fails'[s] = fails[s] + 1
                /\ stats'[s].numBroken = stats[s].numBroken + 1
                /\ stats'[s].numClose = stats[s].numClose + 1]_vars
    /\ [][\A s \in Shards : Discarded(s) \subseteq Discarded(s)']_vars
    /\ [](\A s \in Shards :
            (/\ stats[s].numDial = Len(conns)
             /\ stats[s].numDialFail = 0
             /\ calls.get = 2
             /\ calls.put = 1
             /\ stats[s].numBroken = 1
             /\ pc[Caller] = "idle") =>
                /\ stats[s].numDial = 2
                /\ stats[s].numClose = 1
                /\ result[Caller] = 2
                /\ Borrowed(s) = {2}
                /\ Discarded(s) = {1})

\* get, put broken, get on a fresh shard: the caller holds a second
\* connection.
C13_RebuiltAfterBroken ==
    /\ stats[0].numDial = Len(conns)
    /\ stats[0].numDialFail = 0
    /\ calls.get = 2
    /\ calls.put = 1
    /\ stats[0].numBroken = 1
    /\ pc[Caller] = "idle"
    /\ result[Caller] = 2

Holders(c) == {t \in Threads : c \in refs[t]}

\* How many times c is in the list q.
Occurrences(q, c) == Cardinality({i \in 1..Len(q) : q[i] = c})

\* C15: with callers that put each connection they got at most once, every
\* connection a shard has opened is in exactly one situation: parked (once in
\* that shard's idle list, borrowed false, no holder), held (borrowed true,
\* exactly one holder, not in the idle list) or discarded (borrowed false,
\* no holder, not in the idle list); and it is in no other shard's idle list.
C15_OneOwnerPerConnection ==
    \A c \in ConnIds :
        LET s == conns[c].shard
            n == Occurrences(idle[s], c)
            h == Cardinality(Holders(c))
        IN  /\ \A o \in Shards \ {s} : c \notin Range(idle[o])
            /\ \/ n = 1 /\ ~conns[c].borrowed /\ h = 0
               \/ n = 0 /\ conns[c].borrowed /\ h = 1
               \/ n = 0 /\ ~conns[c].borrowed /\ h = 0

\* A connection that was opened, put back clean and parked has been handed
\* out again from the idle list and is held by one caller.
C15_HandedOutAgain ==
    \E t \in Threads :
        /\ Len(conns) = 1
        /\ stats[0].numDial = 1
        /\ stats[0].numGet = 2
        /\ stats[0].numPut = 1
        /\ conns[1].borrowed
        /\ Holders(1) = {t}
        /\ idle[0] = <<>>

\* C16: a step of the health check thread leaves idle, active, fails, closed,
\* the stats counters and the connections of every shard as they were; and a
\* shard's fails, once at kMaxFails or more, goes below it only by being set
\* to 0 in a caller's successful open or clean put.
C16_ProberTouchesOnlyAvailability ==
    /\ [][(proberVars' # proberVars \/ available' # available
                \/ numAvailable' # numAvailable) =>
            /\ idle' = idle
            /\ active' = active
            /\ fails' = fails
            /\ closed' = closed
            /\ stats' = stats
            /\ conns' = conns]_vars
    /\ [][\A s \in Shards :
            (fails[s] >= kMaxFails /\ fails'[s] < kMaxFails) =>
                /\ fails'[s] = 0
                /\ \/ Len(conns') = Len(conns) + 1
                   \/ Released(s) # {} /\ stats'[s].numBroken = stats[s].numBroken]_vars

\* A scan has marked a shard available again whose fails is still at
\* kMaxFails or more, the failed open that drove it there still counted.
C16_RecoveredStillSuspect ==
    \E s \in Shards :
        /\ lastLog = "recovered"
        /\ pcP = "top"
        /\ available[s]
        /\ fails[s] >= kMaxFails
        /\ stats[s].numDialFail = fails[s]

\* C17: a shard's flag goes from true to false only in a step of the health
\* check thread's scan at that shard, the shard having fails >= kMaxFails,
\* both open() attempts of the probe having failed and numAvailable * 3 >
\* N * 2 holding; and the scan passes a shard that is available with fails <
\* kMaxFails without probing it or marking anything.
C17_MarkDownOnlyAfterFailedProbe ==
    /\ [][\A s \in Shards :
            (available[s] /\ ~available'[s]) =>
                /\ pcP = "scan" /\ it = s
                /\ fails[s] >= kMaxFails
                /\ lastProbe' = <<s, 2>>
                /\ numAvailable * 3 > N * 2]_vars
    /\ [][(/\ pcP = "scan" /\ it < N /\ it' # it
            /\ available[it] /\ fails[it] < kMaxFails) =>
                /\ it' = it + 1
                /\ lastProbe' = lastProbe
                /\ lastLog' = lastLog
                /\ available' = available
                /\ numAvailable' = numAvailable]_vars

\* A scan of three shards is at its end: it probed shard 0 twice in vain and
\* marked it down, and passed the other two.
C17_OneDownTwoPassed ==
    /\ N = 3
    /\ pcP = "scan" /\ it = N
    /\ lastProbe = <<0, 2>>
    /\ lastLog = "down"
    /\ Unavailable = {0}
    /\ \A s \in Shards \ {0} : fails[s] < kMaxFails

\* s is a shard of the pool and is marked unavailable.
IsDown(s) == IF s \in Shards THEN ~available[s] ELSE FALSE

\* A probe of shard s of which both open() attempts fail.
ProbeRefused(s) == ProberCheck /\ lastProbe' = <<s, 2>>

\* C18: with the health check thread scheduled fairly, a shard that is
\* unavailable and whose probes fail only finitely often is marked available
\* again unless the pool is shut down; and a probe that succeeds on an
\* unavailable shard marks it available and adds 1 to numAvailable whatever
\* numAvailable is.
C18_UnavailableShardRecovers ==
    /\ \A s \in 0..(MaxShards - 1) :
          \/ []<><<ProbeRefused(s)>>_vars
          \/ IsDown(s) ~> (~IsDown(s) \/ poolClosed)
    /\ [][\A s \in Shards :
            (/\ pcP = "scan" /\ it = s /\ it' = it + 1
             /\ ~available[s]
             /\ lastProbe' \in {<<s, 0>>, <<s, 1>>}) =>
                /\ available'[s]
                /\ numAvailable' = numAvailable + 1]_vars

\* With three shards of which one was down (numAvailable * 3 = N * 2, where a
\* mark-down is refused), a probe that succeeded at its second attempt has
\* marked it available again.
C18_RecoveredAtTwoThirds ==
    /\ N = 3
    /\ numAvailable = 3
    /\ lastLog = "recovered"
    /\ \E s \in Shards : lastProbe = <<s, 1>>

\* The callers between the active_++ of PoolShard::get of shard s and its
\* return: open() is running or has thrown.
Dialling(s) == {t \in Threads : pc[t] \in {"open", "rollback"} /\ cur(t) = s}

\* C19: a PoolShard::get goes to open() only from an empty idle list with
\* capacity free, having added 1 to active; while it is there other callers
\* take their steps and see active with the pending connection counted; an
\* open() that throws adds 1 to fails and touches nothing else; and the
\* rollback takes the 1 back from active, adds 1 to numDialFail, leaves idle
\* and fails alone, notifies one waiter if there is any and returns null.
C19_FailedOpenRolledBack ==
    /\ [](\A s \in Shards :
            active[s] = Cardinality(Borrowed(s)) + Len(idle[s])
                            + Cardinality(Dialling(s)))
    /\ [][\A t \in Threads :
            (pc[t] # "open" /\ pc'[t] = "open") =>
                /\ idle[cur(t)] = <<>>
                /\ kMaxActive = 0 \/ active[cur(t)] < kMaxActive
                /\ active'[cur(t)] = active[cur(t)] + 1
                /\ idle' = idle]_vars
    /\ [][\A t \in Threads :
            (pc[t] = "open" /\ pc'[t] = "rollback") =>
                /\ fails'[cur(t)] = fails[cur(t)] + 1
                /\ active' = active
                /\ idle' = idle
                /\ stats' = stats]_vars
    /\ [][\A t \in Threads :
            (pc[t] = "rollback" /\ pc'[t] # "rollback") =>
                /\ pc'[t] = "try"
                /\ result'[t] = 0
                /\ refs' = refs
                /\ active'[cur(t)] = active[cur(t)] - 1
                /\ idle' = idle
                /\ fails' = fails
                /\ conns' = conns
                /\ stats' = [stats EXCEPT ![cur(t)] = Bump(@, "numDialFail")]
                /\ IF Waiters(cur(t)) = {}
                   THEN signaled' = signaled
                   ELSE \E w \in Waiters(cur(t)) :
                           signaled' = [signaled EXCEPT ![w] = TRUE]]_vars

\* With kMaxActive = 1, one caller's open() has thrown and been rolled back
\* after the other caller was turned away by the pending connection.
C19_RolledBackAfterRefusal ==
    /\ kMaxActive = 1
    /\ ~closed[0]
    /\ Len(conns) = 0
    /\ stats[0].numDial = 1
    /\ stats[0].numDialFail = 1
    /\ stats[0].numGet = 2
    /\ fails[0] = 1
    /\ active[0] = 0
    /\ \A t \in Threads : pc[t] = "try" /\ tries[t] = 1

\* The counters of shard s since construction: what the readouts gave plus
\* what has been counted since the last one.
Cumulative(s) == AddStats(calls.total[s], stats[s])

\* C20: for every shard, between critical sections, active = numDial -
\* numDialFail - numClose with the counters taken since construction (summed
\* over the readouts), whatever gets, puts, closes and readouts interleave;
\* and the idle list is never longer than active.
C20_ActiveIsDialsMinusFailsAndCloses ==
    \A s \in Shards :
        /\ active[s] = Cumulative(s).numDial - Cumulative(s).numDialFail
                            - Cumulative(s).numClose
        /\ Len(idle[s]) <= active[s]

\* A readout was taken after a connection was opened; since then a second
\* dial failed and the connection was closed.
C20_CountedAcrossReadout ==
    /\ calls.reads = 1
    /\ calls.total[0].numDial = 1
    /\ calls.total[0].numClose = 0
    /\ stats[0].numDial = 1
    /\ stats[0].numDialFail = 1
    /\ stats[0].numClose = 1
    /\ active[0] = 0

\* The shards a DPool::get entered at cursor value loc examines.
Examined(loc) == {Slot(loc, k) : k \in 0..(MAX_TRIES - 1)}

\* C21: with N <= 5 shards and one caller alone, the five slots of a
\* DPool::get are all the shards, whatever the cursor was; so a get that
\* throws has asked every available shard for a connection and got none.
C21_FiveSlotsCoverEveryShard ==
    \A t \in Threads :
        /\ pc[t] # "idle" => Examined(local[t]) = Shards
        /\ (pc[t] = "idle" /\ result[t] = Exhausted) =>
               \A s \in Shards : available[s] => stats[s].numGet >= 1

====
